---------------------------- MODULE Spec2Model ----------------------------
(***************************************************************************)
(* A model of serde-strings (src/lib.rs): the generic wrapper SerdeStr<T>, *)
(* its accessors, its From<T> conversion, and its Deserialize / Serialize  *)
(* implementations, which represent the inner value as a string scalar by  *)
(* delegating to T's FromStr and Display.                                  *)
(*                                                                         *)
(* Strings of the program are sequences of one-character strings; error    *)
(* messages, which the program never takes apart, are TLA+ strings.        *)
(***************************************************************************)
EXTENDS Integers, Sequences, FiniteSets

\* Longest input string the deserializers and the CanDisplay values carry.
MaxLen == 3
\* Largest integer handed to From / set_value / value_mut as an inner value.
MaxVal == 3

Chars == {"a", "+", "9"}

RECURSIVE StringsOfLen(_, _)
StringsOfLen(chars, n) ==
    IF n = 0 THEN {<<>>}
    ELSE {Append(s, c) : s \in StringsOfLen(chars, n - 1), c \in chars}

\* The strings a deserializer may hold.
Strings == UNION {StringsOfLen(Chars, n) : n \in 0..MaxLen}

\* The strings a CanDisplay value may wrap.
Wrapped == UNION {StringsOfLen({"a", "0"}, n) : n \in 0..MaxLen}

(***************************************************************************)
(* Result<_, _> and the ? operator.                                        *)
(***************************************************************************)
Ok(v) == [tag |-> "Ok", value |-> v]
Err(e) == [tag |-> "Err", err |-> e]

(***************************************************************************)
(* The inner types T the wrapper is instantiated with.  IsParsed and       *)
(* CanDisplay are the types of the repository's tests; u8 is a standard    *)
(* type with both capabilities; Toy parses like IsParsed and formats as a  *)
(* decimal integer; AlwaysFail has a parser that rejects every string.     *)
(***************************************************************************)
Types == {"IsParsed", "CanDisplay", "u8", "Toy", "AlwaysFail"}

\* T: FromStr, <T as FromStr>::Err: Display (the bounds of impl Deserialize)
HasFromStr(T) == T \in {"IsParsed", "u8", "Toy", "AlwaysFail"}
\* T: Display (the bound of impl Serialize)
HasDisplay(T) == T \in {"CanDisplay", "u8", "Toy"}

U8Max == 2^8 - 1

Values(T) ==
    CASE T = "CanDisplay" -> Wrapped
      [] T = "u8" -> (0..MaxVal) \cup {10 * MaxVal, U8Max}
      [] OTHER -> (0..MaxVal) \cup {10 * MaxVal}

Digits == <<"0", "1", "2", "3", "4", "5", "6", "7", "8", "9">>

IsDigit(c) == \E i \in 1..10 : Digits[i] = c
ToDigit(c) == (CHOOSE i \in 1..10 : Digits[i] = c) - 1

\* Decimal rendering of a non-negative integer: no sign, no leading zeros.
RECURSIVE Decimal(_)
Decimal(n) ==
    IF n < 10 THEN <<Digits[n + 1]>>
    ELSE Append(Decimal(n \div 10), Digits[(n % 10) + 1])

\* <u8 as FromStr>: the digit loop, left to right, of the standard parser.
RECURSIVE ParseDigits(_, _)
ParseDigits(digits, acc) ==
    IF digits = <<>> THEN Ok(acc)
    ELSE IF ~IsDigit(Head(digits)) THEN Err("InvalidDigit")
    ELSE LET r == acc * 10 + ToDigit(Head(digits))
         IN  IF r > U8Max THEN Err("PosOverflow")
             ELSE ParseDigits(Tail(digits), r)

ParseU8(s) ==
    IF s = <<>> THEN Err("Empty")
    ELSE IF Len(s) = 1 /\ Head(s) \in {"+", "-"} THEN Err("InvalidDigit")
    ELSE IF Head(s) = "+" THEN ParseDigits(Tail(s), 0)
    ELSE ParseDigits(s, 0)

\* T::from_str(s): Result<T, T::Err>
from_str(T, s) ==
    CASE T = "IsParsed" -> Ok(Len(s))
      [] T = "Toy" -> Ok(Len(s))
      [] T = "u8" -> ParseU8(s)
      [] T = "AlwaysFail" -> Err("bad format")

\* <T::Err as Display>::to_string
ErrToString(T, e) ==
    IF T = "u8"
    THEN CASE e = "Empty" -> "cannot parse integer from empty string"
           [] e = "InvalidDigit" -> "invalid digit found in string"
           [] e = "PosOverflow" -> "number too large to fit in target type"
    ELSE e

\* <T as Display>::to_string
to_string(T, v) ==
    CASE T = "CanDisplay" -> Decimal(Len(v))
      [] OTHER -> Decimal(v)

\* <T as Default>::default(), which #[derive(Default)] on SerdeStr wraps
DefaultOf(T) == IF T = "CanDisplay" THEN <<>> ELSE 0

(***************************************************************************)
(* SerdeStr<T>: one public field.                                          *)
(***************************************************************************)
None == [tag |-> "None"]
SerdeStr(v) == [tag |-> "SerdeStr", value |-> v]

\* Each method yields the returned value (out) and the receiver afterwards
\* (self; None once the receiver is consumed).
value(self) == [out |-> self.value, self |-> self]

\* value_mut hands out &mut self.value; w is what the caller stores through it.
value_mut(self, w) == [out |-> w, self |-> [self EXCEPT !.value = w]]

\* Mutant: the assignment is lost and the previous value stays.
set_value_lost(self, t) == [out |-> None, self |-> self]

set_value(self, t) == [out |-> None, self |-> [self EXCEPT !.value = t]]

unwrap(self) == [out |-> self.value, self |-> None]

from(v) == SerdeStr(v)

(***************************************************************************)
(* The host framework.  A deserializer is some format's view of an input   *)
(* whose next scalar is a string or something else; a serializer is a sink *)
(* that accepts or refuses the scalar it is handed.                        *)
(***************************************************************************)
Formats == {"json", "yaml"}
Surroundings == {"compact", "spaced"}

Scalars == {[kind |-> "str", s |-> s] : s \in Strings}
           \cup {[kind |-> "num"], [kind |-> "null"]}

Deserializers ==
    {[format |-> f, around |-> a, scalar |-> sc] :
        f \in Formats, a \in Surroundings, sc \in Scalars}

Serializers == {[format |-> f, sink_ok |-> b] : f \in Formats, b \in BOOLEAN}

\* String::deserialize(de): the framework's string extraction.
String_deserialize(de) ==
    IF de.scalar.kind = "str" THEN Ok(de.scalar.s)
    ELSE Err([format |-> de.format, kind |-> "invalid_type",
              msg |-> "expected a string"])

\* <D::Error as de::Error>::custom(msg): D is the deserializer's type, which
\* the model names by its format.
custom(D, msg) == [format |-> D, kind |-> "custom", msg |-> msg]

\* str::serialize(ser): Serializer::serialize_str
serialize_str(ser, s) ==
    IF ser.sink_ok THEN Ok([kind |-> "str", s |-> s])
    ELSE Err([format |-> ser.format, kind |-> "io", msg |-> "sink failed"])

(***************************************************************************)
(* impl Deserialize for SerdeStr<T>.  calls lists, in order, the calls the *)
(* body makes on the deserializer and on T's parser.                       *)
(***************************************************************************)
\* Mutant: the string is normalised (leading plus signs dropped) before T's
\* parser sees it.
RECURSIVE StripPlus(_)
StripPlus(s) ==
    IF s # <<>> /\ Head(s) = "+" THEN StripPlus(Tail(s)) ELSE s

deserialize_normalising(T, de) ==
    LET str == String_deserialize(de)
    IN  IF str.tag = "Err"
        THEN [ret |-> Err(str.err), calls |-> <<"deserialize_string">>]
        ELSE LET parsed == from_str(T, StripPlus(str.value))
                 calls == <<"deserialize_string", "from_str">>
             IN  IF parsed.tag = "Err"
                 THEN [ret |-> Err(custom(de.format,
                                          ErrToString(T, parsed.err))),
                       calls |-> calls]
                 ELSE [ret |-> Ok(SerdeStr(parsed.value)), calls |-> calls]

\* Mutant: T's parse error is dropped and a fixed message reported.
deserialize_opaque(T, de) ==
    LET str == String_deserialize(de)
    IN  IF str.tag = "Err"
        THEN [ret |-> Err(str.err), calls |-> <<"deserialize_string">>]
        ELSE LET parsed == from_str(T, str.value)
                 calls == <<"deserialize_string", "from_str">>
             IN  IF parsed.tag = "Err"
                 THEN [ret |-> Err(custom(de.format, "invalid value")),
                       calls |-> calls]
                 ELSE [ret |-> Ok(SerdeStr(parsed.value)), calls |-> calls]

\* Mutant: map_err is applied to the extraction's error as well, so the
\* framework's error comes back re-wrapped as a custom error.
deserialize_rewrapping(T, de) ==
    LET str == String_deserialize(de)
    IN  IF str.tag = "Err"
        THEN [ret |-> Err(custom(de.format, str.err.msg)),
              calls |-> <<"deserialize_string">>]
        ELSE LET parsed == from_str(T, str.value)
                 calls == <<"deserialize_string", "from_str">>
             IN  IF parsed.tag = "Err"
                 THEN [ret |-> Err(custom(de.format,
                                          ErrToString(T, parsed.err))),
                       calls |-> calls]
                 ELSE [ret |-> Ok(SerdeStr(parsed.value)), calls |-> calls]

\* Mutant: the error message names the host format the string came from.
deserialize_format_aware(T, de) ==
    LET str == String_deserialize(de)
    IN  IF str.tag = "Err"
        THEN [ret |-> Err(str.err), calls |-> <<"deserialize_string">>]
        ELSE LET parsed == from_str(T, str.value)
                 calls == <<"deserialize_string", "from_str">>
             IN  IF parsed.tag = "Err"
                 THEN [ret |-> Err(custom(de.format, de.format)),
                       calls |-> calls]
                 ELSE [ret |-> Ok(SerdeStr(parsed.value)), calls |-> calls]

\* Mutant: a rejected string is parsed a second time without its sign.
deserialize_retrying(T, de) ==
    LET str == String_deserialize(de)
    IN  IF str.tag = "Err"
        THEN [ret |-> Err(str.err), calls |-> <<"deserialize_string">>]
        ELSE LET first == from_str(T, str.value)
                 again == from_str(T, StripPlus(str.value))
             IN  IF first.tag = "Ok"
                 THEN [ret |-> Ok(SerdeStr(first.value)),
                       calls |-> <<"deserialize_string", "from_str">>]
                 ELSE [ret |-> IF again.tag = "Ok"
                               THEN Ok(SerdeStr(again.value))
                               ELSE Err(custom(de.format,
                                               ErrToString(T, again.err))),
                       calls |-> <<"deserialize_string", "from_str",
                                   "from_str">>]

deserialize(T, de) ==
    LET str == String_deserialize(de)
    IN  IF str.tag = "Err"
        THEN [ret |-> Err(str.err), calls |-> <<"deserialize_string">>]
        ELSE LET parsed == from_str(T, str.value)
                 calls == <<"deserialize_string", "from_str">>
             IN  IF parsed.tag = "Err"
                 THEN [ret |-> Err(custom(de.format,
                                          ErrToString(T, parsed.err))),
                       calls |-> calls]
                 ELSE [ret |-> Ok(SerdeStr(parsed.value)), calls |-> calls]

(***************************************************************************)
(* impl Serialize for SerdeStr<T>.  handed lists the scalars the body      *)
(* hands to the serializer.                                                *)
(***************************************************************************)
\* Mutant: the value is rendered quoted, as {:?} renders a string.
serialize_quoted(T, self, ser) ==
    LET s == <<"\"">> \o to_string(T, self.value) \o <<"\"">>
    IN  [ret |-> serialize_str(ser, s),
         handed |-> <<[kind |-> "str", s |-> s]>>]

\* Mutant: a failure of the call is reported as an error of the adapter's.
serialize_own_error(T, self, ser) ==
    LET s == to_string(T, self.value)
        r == serialize_str(ser, s)
    IN  [ret |-> IF r.tag = "Ok" THEN r
                 ELSE Err([format |-> ser.format, kind |-> "custom",
                           msg |-> "format failed"]),
         handed |-> <<[kind |-> "str", s |-> s]>>]

serialize(T, self, ser) ==
    LET s == to_string(T, self.value)
    IN  [ret |-> serialize_str(ser, s),
         handed |-> <<[kind |-> "str", s |-> s]>>]

(***************************************************************************)
(* State.                                                                  *)
(***************************************************************************)
VARIABLES
    T,          \* the inner type of this instantiation
    adapter,    \* the SerdeStr<T> the program holds, or None
    last,       \* the last operation: its name, inputs and outcome
    sink,       \* what the last successful serialize left in the output
    written     \* the inner value most recently stored into adapter

vars == <<T, adapter, last, sink, written>>

NoSink == [tag |-> "None"]

Init ==
    /\ T \in Types
    /\ adapter = None
    /\ last = [op |-> "init"]
    /\ sink = NoSink
    /\ written = None

\* What a later record keeps of the operation before it.
Brief(l) ==
    IF l.op \in {"from", "set_value", "value_mut"}
    THEN [op |-> l.op, arg |-> l.arg]
    ELSE [op |-> l.op]

\* Mutant: the wrapper is built with Self::default() and the argument dropped.
From_default ==
    \E v \in Values(T) :
        /\ adapter' = from(DefaultOf(T))
        /\ written' = v
        /\ last' = [op |-> "from", arg |-> v]
        /\ UNCHANGED <<T, sink>>

\* SerdeStr::from(v)
From ==
    \E v \in Values(T) :
        /\ adapter' = from(v)
        /\ written' = v
        /\ last' = [op |-> "from", arg |-> v]
        /\ UNCHANGED <<T, sink>>

\* adapter.value()
Value ==
    /\ adapter # None
    /\ LET r == value(adapter)
       IN  /\ adapter' = r.self
           /\ last' = [op |-> "value", out |-> r.out, after |-> Brief(last)]
    /\ UNCHANGED <<T, sink, written>>

\* *adapter.value_mut() = w
ValueMut ==
    /\ adapter # None
    /\ \E w \in Values(T) :
        LET r == value_mut(adapter, w)
        IN  /\ adapter' = r.self
            /\ written' = w
            /\ last' = [op |-> "value_mut", arg |-> w]
    /\ UNCHANGED <<T, sink>>

\* adapter.set_value(t)
SetValue ==
    /\ adapter # None
    /\ \E t \in Values(T) :
        LET r == set_value(adapter, t)
        IN  /\ adapter' = r.self
            /\ written' = t
            /\ last' = [op |-> "set_value", arg |-> t]
    /\ UNCHANGED <<T, sink>>

\* adapter.unwrap()
Unwrap ==
    /\ adapter # None
    /\ LET r == unwrap(adapter)
       IN  /\ adapter' = r.self
           /\ last' = [op |-> "unwrap", out |-> r.out, after |-> Brief(last)]
    /\ UNCHANGED <<T, sink, written>>

\* adapter.serialize(ser)
Serialize ==
    /\ adapter # None
    /\ HasDisplay(T)
    /\ \E ser \in Serializers :
        LET r == serialize(T, adapter, ser)
        IN  /\ last' = [op |-> "serialize", ser |-> ser, ret |-> r.ret,
                        handed |-> r.handed, expect |-> written]
            /\ sink' = IF r.ret.tag = "Ok"
                       THEN [tag |-> "Some", scalar |-> r.ret.value,
                             of |-> adapter]
                       ELSE sink
    /\ UNCHANGED <<T, adapter, written>>

\* The completion of SerdeStr::<T>::deserialize(de)
Decoded(de, src) ==
    LET r == deserialize(T, de)
    IN  /\ last' = [op |-> "deserialize", de |-> de, src |-> src,
                    ret |-> r.ret, calls |-> r.calls]
        /\ IF r.ret.tag = "Ok"
           THEN /\ adapter' = r.ret.value
                /\ written' = from_str(T, de.scalar.s).value
           ELSE UNCHANGED <<adapter, written>>
        /\ UNCHANGED <<T, sink>>

\* SerdeStr::<T>::deserialize(de) on an input of the host's
Deserialize ==
    /\ HasFromStr(T)
    /\ \E de \in Deserializers : Decoded(de, "input")

\* SerdeStr::<T>::deserialize(de) on what the last serialize wrote
DeserializeEncoded ==
    /\ HasFromStr(T)
    /\ sink # NoSink
    /\ \E f \in Formats, a \in Surroundings :
        Decoded([format |-> f, around |-> a, scalar |-> sink.scalar], "sink")

\* Construction, the accessors, encoding, and decoding what was encoded.
Next ==
    \/ From
    \/ Value
    \/ ValueMut
    \/ SetValue
    \/ Unwrap
    \/ Serialize
    \/ DeserializeEncoded

Spec == Init /\ [][Next]_vars

\* Decoding the inputs of the host framework.
NextDecode == Deserialize

SpecDecode == Init /\ [][NextDecode]_vars

(***************************************************************************)
(* Properties.                                                             *)
(***************************************************************************)
IsDecode == last.op = "deserialize"
GotString == IsDecode /\ last.de.scalar.kind = "str"

\* T's formatting of every value is accepted by T's parser and parses back
\* to that value.
Stable(t) ==
    /\ HasFromStr(t)
    /\ HasDisplay(t)
    /\ \A v \in Values(t) : from_str(t, to_string(t, v)) = Ok(v)

\* C1: for a stable T, decoding the string scalar that encoding an adapter a
\* produced succeeds and yields an adapter equal to a.
RoundTrip ==
    (IsDecode /\ last.src = "sink" /\ Stable(T)) => last.ret = Ok(sink.of)

RoundTripWitness ==
    /\ IsDecode
    /\ last.src = "sink"
    /\ Stable(T)
    /\ sink.of = SerdeStr(U8Max)
    /\ last.de.scalar.s = <<"2", "5", "5">>
    /\ last.ret.tag = "Ok"

\* C2: when the host yields a string that T's parser accepts with result v,
\* deserialize returns Ok of an adapter whose inner value is exactly v; with
\* the length parser of the tests, a three-character string decodes to 3.
DecodeSuccess ==
    GotString =>
        LET p == from_str(T, last.de.scalar.s)
        IN  /\ p.tag = "Ok" =>
                /\ last.ret = Ok(SerdeStr(p.value))
                /\ adapter = SerdeStr(p.value)
            /\ (T = "IsParsed" /\ last.de.scalar.s = <<"a", "a", "a">>) =>
                last.ret = Ok(SerdeStr(3))

DecodeSuccessWitness ==
    /\ GotString
    /\ T = "IsParsed"
    /\ last.de.scalar.s = <<"+", "a", "9">>
    /\ last.ret.tag = "Ok"
    /\ last.ret.value.value = 3

\* C3: serialize hands the serializer exactly one scalar, a string, equal
\* character for character to T's formatting of the inner value; a value
\* that formats to "3" is handed over as the string "3".
EncodeExact ==
    last.op = "serialize" =>
        /\ Len(last.handed) = 1
        /\ last.handed[1] = [kind |-> "str", s |-> to_string(T, written)]
        /\ (T = "CanDisplay" /\ Len(written) = 3) =>
            last.handed = <<[kind |-> "str", s |-> <<"3">>]>>

EncodeExactWitness ==
    /\ last.op = "serialize"
    /\ T = "CanDisplay"
    /\ adapter = SerdeStr(<<"a", "0", "a">>)
    /\ last.handed = <<[kind |-> "str", s |-> <<"3">>]>>

\* C4: when T's parser rejects the string with error E, deserialize returns
\* a failure of the host's custom kind whose message is E's Display form; a
\* parser that always fails with "bad format" makes every string fail with
\* that message.
ErrorSurfacing ==
    GotString =>
        LET p == from_str(T, last.de.scalar.s)
        IN  /\ p.tag = "Err" =>
                /\ last.ret.tag = "Err"
                /\ last.ret.err.kind = "custom"
                /\ last.ret.err.msg = ErrToString(T, p.err)
            /\ T = "AlwaysFail" =>
                (last.ret.tag = "Err" /\ last.ret.err.msg = "bad format")
            /\ (T = "u8" /\ last.de.scalar.s = <<>>) =>
                (last.ret.tag = "Err" /\ last.ret.err.msg =
                    "cannot parse integer from empty string")

ErrorSurfacingWitness ==
    /\ GotString
    /\ T = "AlwaysFail"
    /\ last.ret.tag = "Err"
    /\ last.ret.err.kind = "custom"
    /\ last.ret.err.msg = "bad format"

\* C5: when the host's string extraction fails, deserialize returns the
\* host's error unchanged, T's parser is not invoked in that decode, and no
\* adapter is produced.
StructuralErrorFirst ==
    (IsDecode /\ last.de.scalar.kind # "str") =>
        /\ last.ret = Err(String_deserialize(last.de).err)
        /\ last.ret.err.kind = "invalid_type"
        /\ last.ret.tag = "Err"
        /\ \A i \in 1..Len(last.calls) : last.calls[i] # "from_str"

StructuralErrorFirstWitness ==
    /\ IsDecode
    /\ last.de.scalar.kind = "num"
    /\ last.ret.tag = "Err"
    /\ last.calls = <<"deserialize_string">>

\* C6: From::from(v) followed by unwrap returns a value equal to v, for
\* every inner type; construction is always possible and unwrap is possible
\* on every adapter.
ConstructionIdentity ==
    /\ ENABLED From
    /\ adapter # None => ENABLED Unwrap
    /\ last.op = "from" => adapter = SerdeStr(last.arg)
    /\ (last.op = "unwrap" /\ last.after.op = "from") =>
        (last.out = last.after.arg /\ adapter = None)

ConstructionIdentityWitness ==
    /\ last.op = "unwrap"
    /\ last.after.op = "from"
    /\ T = "AlwaysFail"
    /\ last.out = MaxVal

\* C7: value(), unwrap and encode observe the inner value most recently
\* written by construction, set_value or a write through value_mut;
\* set_value leaves nothing of the previous value, and value() leaves the
\* inner value as it was.
TransparentMutation ==
    /\ adapter # None => adapter = SerdeStr(written)
    /\ last.op = "value" => (last.out = written /\ adapter # None)
    /\ last.op = "unwrap" => last.out = written
    /\ last.op = "serialize" =>
        last.handed[1].s = to_string(T, adapter.value)
    /\ last.op \in {"set_value", "value_mut"} => adapter = SerdeStr(last.arg)

TransparentMutationWitness ==
    /\ last.op = "value"
    /\ last.after.op = "set_value"
    /\ last.out = last.after.arg
    /\ T = "u8"
    /\ last.out = U8Max

\* Two results agree: both Ok with equal adapters, or both Err with the same
\* message.
SameOutcome(r1, r2) ==
    /\ r1.tag = r2.tag
    /\ r1.tag = "Ok" => r1.value = r2.value
    /\ r1.tag = "Err" => r1.err.msg = r2.err.msg

\* C8: a decode's outcome is that of every other decode whose deserializer,
\* of whatever format and surrounding input, yields the same string.
DependsOnlyOnString ==
    GotString =>
        \A d \in Deserializers :
            String_deserialize(d) = String_deserialize(last.de) =>
                SameOutcome(deserialize(T, d).ret, last.ret)

DependsOnlyOnStringWitness ==
    /\ GotString
    /\ last.de.format = "yaml"
    /\ last.de.around = "spaced"
    /\ last.ret.tag = "Err"
    /\ \E d \in Deserializers :
        /\ d.format = "json"
        /\ d.around = "compact"
        /\ String_deserialize(d) = String_deserialize(last.de)

\* C9: serialize returns the result of the serializer's string call: it
\* fails exactly when the sink fails, with the sink's error.
EncodeNoOwnErrors ==
    last.op = "serialize" =>
        /\ last.ret = serialize_str(last.ser, last.handed[1].s)
        /\ last.ret.tag = "Err" <=> ~last.ser.sink_ok
        /\ last.ret.tag = "Err" => last.ret.err.kind = "io"

EncodeNoOwnErrorsWitness ==
    /\ last.op = "serialize"
    /\ ~last.ser.sink_ok
    /\ last.ret.tag = "Err"
    /\ last.ret.err.kind = "io"

\* How many times call c occurs in the sequence of calls.
Count(calls, c) == Cardinality({i \in 1..Len(calls) : calls[i] = c})

\* C10: a decode asks the deserializer for a string exactly once and
\* invokes T's parser at most once, exactly once when the string was
\* obtained; it ends with an adapter constructed, or with an error and no
\* adapter.
SingleAttempt ==
    IsDecode =>
        /\ Count(last.calls, "deserialize_string") = 1
        /\ Count(last.calls, "from_str") =
            (IF last.de.scalar.kind = "str" THEN 1 ELSE 0)
        /\ \/ last.ret.tag = "Ok" /\ DOMAIN last.ret = {"tag", "value"}
              /\ last.ret.value.tag = "SerdeStr" /\ adapter = last.ret.value
           \/ last.ret.tag = "Err" /\ DOMAIN last.ret = {"tag", "err"}

SingleAttemptWitness ==
    /\ IsDecode
    /\ T = "u8"
    /\ last.de.scalar.kind = "str"
    /\ last.de.scalar.s = <<"+", "a">>
    /\ last.ret.tag = "Err"
    /\ last.calls = <<"deserialize_string", "from_str">>

=============================================================================
